---- MODULE Spec2Model ----
(***************************************************************************)
(* The calculator of src/components/calculator.tsx as a state machine.     *)
(*                                                                         *)
(* Strings are sequences of one-character strings.  The two characters of  *)
(* the error marker and the multiplication and division signs are not      *)
(* ASCII; each is written as the name of its code point.                   *)
(*                                                                         *)
(* A JavaScript number is NaN or the double nearest to the decimal         *)
(* (-1)^neg * m * 10^e, with m not divisible by 10 (zero: m = 0, e = 0).   *)
(* Decimals of at most 15 significant digits name distinct doubles, and    *)
(* String() of such a double is the decimal again, so a number is kept as  *)
(* its decimal.  Negative zero is kept as zero: the code never tells them  *)
(* apart (String(-0) is "0", -0 === 0, and it never divides by a zero).    *)
(* Values with m beyond MaxMantissa or e outside -MaxFrac..MaxExp, and     *)
(* arithmetic on operands that are not exactly representable in binary     *)
(* (where IEEE rounding shows, as in 0.1 + 0.2), are outside the bounds:   *)
(* they are the value Out, a finite number the model does not follow, and  *)
(* a step that would compute with it is not taken.  No number within the   *)
(* bounds overflows, so Infinity is met only as a literal by parseFloat.   *)
(***************************************************************************)
EXTENDS Integers, Sequences, FiniteSets, TLC

\* Bounds of the model.
MaxLen == 2         \* a Digit or Decimal press extends a display shorter than this
MaxMantissa == 25   \* largest m of a number
MaxExp == 1         \* largest decimal exponent e of a number
MaxFrac == 2        \* most decimal places of a number: e >= -MaxFrac

\* The digit buttons modelled.
Digits == {0, 2, 5}

VARIABLES
  display, previousValue, operation, waitingForNewValue,  \* the component's state
  lastEvent,   \* the button last pressed
  recording,   \* what else is recorded: "step" (before) or "keys" (typed, script)
  before,      \* the state it was pressed in
  repeated,    \* whether the button pressed before it was of the same kind
  typed,       \* the digits pressed since the last button that was no digit
  script,      \* the calculation keyed in since mount or Clear
  lastOperator, \* the operator last pressed since mount, Clear or Equals
  rendered,    \* the text formatDisplay put on the screen, once it has
  carry        \* the use made of the latest result of an Equals press

vars == <<display, previousValue, operation, waitingForNewValue,
          lastEvent, recording, before, repeated, typed, script, lastOperator,
          rendered, carry>>

-----------------------------------------------------------------------------
\* Characters and strings

ErrorMarker == <<"U+932F", "U+8AA4">>

OpAdd == "+"
OpSub == "-"
OpMul == "U+00D7"
OpDiv == "U+00F7"

DigitChars == <<"0", "1", "2", "3", "4", "5", "6", "7", "8", "9">>

IsDigit(c) == \E i \in 1..10 : DigitChars[i] = c

DigitVal(c) == (CHOOSE i \in 1..10 : DigitChars[i] = c) - 1

DigitChar(d) == DigitChars[d + 1]

\* s.indexOf(c) === -1
NoChar(s, c) == \A i \in 1..Len(s) : s[i] # c

\* s.slice(1)
Slice1(s) == SubSeq(s, 2, Len(s))

-----------------------------------------------------------------------------
\* Numbers

Null == [kind |-> "null"]
NaN == [kind |-> "nan"]
Infinity == [kind |-> "inf"]
Out == [kind |-> "out"]

Unmodelled(x) == x.kind \in {"out", "inf"}

RECURSIVE Pow10(_)
Pow10(n) == IF n = 0 THEN 1 ELSE 10 * Pow10(n - 1)

RECURSIVE Pow5(_)
Pow5(n) == IF n = 0 THEN 1 ELSE 5 * Pow5(n - 1)

RECURSIVE NumDigits(_)
NumDigits(m) == IF m < 10 THEN 1 ELSE 1 + NumDigits(m \div 10)

\* The most significant digits of a number within the bounds.
MaxSig == NumDigits(MaxMantissa)

\* The number (-1)^neg * m * 10^e in normal form, or Out beyond the bounds.
RECURSIVE Fin(_, _, _)
Fin(neg, m, e) ==
  IF m = 0 THEN [kind |-> "fin", neg |-> FALSE, m |-> 0, e |-> 0]
  ELSE IF m % 10 = 0 THEN Fin(neg, m \div 10, e + 1)
  ELSE IF m > MaxMantissa \/ e > MaxExp \/ e < -MaxFrac THEN Out
  ELSE [kind |-> "fin", neg |-> neg, m |-> m, e |-> e]

Zero == Fin(FALSE, 0, 0)

IsZero(x) == x.kind = "fin" /\ x.m = 0

\* x is a double exactly: an integer below 10^15, or a binary fraction.
IsExact(x) ==
  /\ x.kind = "fin"
  /\ \/ x.m = 0
     \/ x.e >= 0
     \/ x.e < 0 /\ -x.e <= 2 * MaxSig /\ x.m % Pow5(-x.e) = 0

RECURSIVE DigitsToNat(_)
DigitsToNat(ds) ==
  IF ds = <<>> THEN 0
  ELSE 10 * DigitsToNat(SubSeq(ds, 1, Len(ds) - 1)) + DigitVal(ds[Len(ds)])

RECURSIVE NatToDigits(_)
NatToDigits(m) ==
  IF m < 10 THEN <<DigitChar(m)>>
  ELSE Append(NatToDigits(m \div 10), DigitChar(m % 10))

RECURSIVE Zeros(_)
Zeros(n) == IF n <= 0 THEN <<>> ELSE <<"0">> \o Zeros(n - 1)

RECURSIVE StripLeadingZeros(_)
StripLeadingZeros(ds) ==
  IF ds # <<>> /\ ds[1] = "0" THEN StripLeadingZeros(Tail(ds)) ELSE ds

RECURSIVE StripTrailingZeros(_)
StripTrailingZeros(ds) ==
  IF ds # <<>> /\ ds[Len(ds)] = "0"
  THEN StripTrailingZeros(SubSeq(ds, 1, Len(ds) - 1))
  ELSE ds

\* The number written by the digits ds times 10^e.
FromDigits(neg, ds, e) ==
  LET lead == StripLeadingZeros(ds)
      sig == StripTrailingZeros(lead)
  IN  IF sig = <<>> THEN Zero
      ELSE IF Len(sig) > MaxSig THEN Out
      ELSE Fin(neg, DigitsToNat(sig), e + (Len(lead) - Len(sig)))

\* The first index from i on that holds no digit.
RECURSIVE SkipDigits(_, _)
SkipDigits(s, i) ==
  IF i <= Len(s) /\ IsDigit(s[i]) THEN SkipDigits(s, i + 1) ELSE i

StartsWith(s, p) == Len(s) >= Len(p) /\ SubSeq(s, 1, Len(p)) = p

\* parseFloat(s): the longest prefix of s that is a decimal literal
\* (sign, digits, point, digits, exponent), NaN when there is none.
parseFloat(s) ==
  LET signed == Len(s) >= 1 /\ s[1] \in {"-", "+"}
      neg == signed /\ s[1] = "-"
      i0 == IF signed THEN 2 ELSE 1
      i1 == SkipDigits(s, i0)
      hasDot == i1 <= Len(s) /\ s[i1] = "."
      i2 == IF hasDot THEN SkipDigits(s, i1 + 1) ELSE i1
      intD == SubSeq(s, i0, i1 - 1)
      fracD == IF hasDot THEN SubSeq(s, i1 + 1, i2 - 1) ELSE <<>>
      hasE == i2 <= Len(s) /\ s[i2] \in {"e", "E"}
      eSigned == hasE /\ i2 + 1 <= Len(s) /\ s[i2 + 1] \in {"-", "+"}
      j1 == IF eSigned THEN i2 + 2 ELSE i2 + 1
      j2 == SkipDigits(s, j1)
      hasExp == hasE /\ j2 > j1
      expD == IF hasExp THEN SubSeq(s, j1, j2 - 1) ELSE <<>>
      expAbs == DigitsToNat(expD)
      expVal == IF eSigned /\ s[i2 + 1] = "-" THEN -expAbs ELSE expAbs
  IN  IF StartsWith(SubSeq(s, i0, Len(s)), <<"I", "n", "f", "i", "n", "i", "t", "y">>)
      THEN Infinity
      ELSE IF Len(intD) + Len(fracD) = 0 THEN NaN
      ELSE IF Len(expD) > 3 THEN Out
      ELSE FromDigits(neg, intD \o fracD, expVal - Len(fracD))

\* String(x), Number::toString of ECMAScript: k digits, the point after the
\* n-th; plain notation for -6 < n <= 21, exponent notation otherwise.
String(x) ==
  IF x.kind = "nan" THEN <<"N", "a", "N">>
  ELSE IF x.m = 0 THEN <<"0">>
  ELSE
    LET ds == NatToDigits(x.m)
        k == Len(ds)
        n == k + x.e
        sign == IF x.neg THEN <<"-">> ELSE <<>>
        ex == n - 1
        exS == (IF ex < 0 THEN <<"-">> ELSE <<"+">>)
                 \o NatToDigits(IF ex < 0 THEN -ex ELSE ex)
    IN  sign \o
        (IF k <= n /\ n <= 21 THEN ds \o Zeros(n - k)
         ELSE IF 0 < n /\ n <= 21
           THEN SubSeq(ds, 1, n) \o <<".">> \o SubSeq(ds, n + 1, k)
         ELSE IF -6 < n /\ n <= 0 THEN <<"0", ".">> \o Zeros(-n) \o ds
         ELSE IF k = 1 THEN ds \o <<"e">> \o exS
         ELSE <<ds[1], ".">> \o SubSeq(ds, 2, k) \o <<"e">> \o exS)

-----------------------------------------------------------------------------
\* Arithmetic of the numbers above

Negate(x) == IF x.kind = "fin" /\ x.m # 0 THEN [x EXCEPT !.neg = ~x.neg] ELSE x

Signed(x) == IF x.neg THEN -x.m ELSE x.m

Abs(i) == IF i < 0 THEN -i ELSE i

\* x + y of two numbers of the model. Exponents more than MaxSig apart give
\* a sum of more than MaxSig digits.
Plus(x, y) ==
  IF IsZero(x) THEN y
  ELSE IF IsZero(y) THEN x
  ELSE
    LET lo == IF x.e < y.e THEN x.e ELSE y.e
        sum == Signed(x) * Pow10(x.e - lo) + Signed(y) * Pow10(y.e - lo)
    IN  IF x.e - lo > MaxSig \/ y.e - lo > MaxSig THEN Out
        ELSE Fin(sum < 0, Abs(sum), lo)

Times(x, y) == Fin(x.neg # y.neg, x.m * y.m, x.e + y.e)

\* Long division of m by d, one decimal place a step: q the quotient so far,
\* r the remainder, k the places taken.
RECURSIVE LongDiv(_, _, _, _)
LongDiv(q, r, d, k) ==
  IF r = 0 THEN [ok |-> TRUE, q |-> q, k |-> k]
  ELSE IF q > MaxMantissa THEN [ok |-> FALSE, q |-> 0, k |-> 0]
  ELSE LongDiv(10 * q + ((10 * r) \div d), (10 * r) % d, d, k + 1)

\* x / y for y other than zero; Out when the quotient does not end within
\* MaxSig digits.
Quotient(x, y) ==
  LET l == LongDiv(x.m \div y.m, x.m % y.m, y.m, 0)
  IN  IF l.ok THEN Fin(x.neg # y.neg, l.q, x.e - y.e - l.k) ELSE Out

Difference(x, y) == Plus(x, Negate(y))

\* first + second, first - second, first * second, first / second in IEEE
\* arithmetic (sign names which): NaN from a NaN, the exact result from
\* operands that are doubles exactly, Out otherwise.
Arith(first, second, sign) ==
  IF Unmodelled(first) \/ Unmodelled(second) THEN Out
  ELSE IF first.kind = "nan" \/ second.kind = "nan" THEN NaN
  ELSE IF ~IsExact(first) \/ ~IsExact(second) THEN Out
  ELSE CASE sign = "+" -> Plus(first, second)
         [] sign = "-" -> Difference(first, second)
         [] sign = "*" -> Times(first, second)
         [] sign = "/" -> Quotient(first, second)

calculate(first, second, op) ==
  CASE op = OpAdd -> Arith(first, second, "+")
    [] op = OpSub -> Arith(first, second, "-")
    [] op = OpMul -> Arith(first, second, "*")
    [] op = OpDiv -> IF IsZero(second) THEN NaN ELSE Arith(first, second, "/")
    [] OTHER -> second

isNaN(x) == x.kind = "nan"

-----------------------------------------------------------------------------
\* The component's state and its handlers, each a function of the state the
\* render closed over.

NoOperation == "null"

Operations == {OpAdd, OpSub, OpMul, OpDiv}

State(d, p, o, w) ==
  [display |-> d, previousValue |-> p, operation |-> o, waitingForNewValue |-> w]

InitialState == State(<<"0">>, Null, NoOperation, FALSE)

\* Mutants of handleNumberPress: one that ignores waitingForNewValue, one that
\* appends to a display of "0".
handleNumberPressIgnoresWaiting(s, num) ==
  [s EXCEPT !.display = IF s.display = <<"0">> THEN <<num>>
                        ELSE Append(s.display, num),
            !.waitingForNewValue = FALSE]

handleNumberPressKeepsZero(s, num) ==
  IF s.waitingForNewValue
  THEN [s EXCEPT !.display = <<num>>, !.waitingForNewValue = FALSE]
  ELSE [s EXCEPT !.display = Append(s.display, num)]

handleNumberPress(s, num) ==
  IF s.waitingForNewValue
  THEN [s EXCEPT !.display = <<num>>, !.waitingForNewValue = FALSE]
  ELSE [s EXCEPT !.display = IF s.display = <<"0">> THEN <<num>>
                             ELSE Append(s.display, num)]

\* Mutant of handleDecimalPress: the indexOf test is missing.
handleDecimalPressAlwaysAppends(s) ==
  IF s.waitingForNewValue
  THEN [s EXCEPT !.display = <<"0", ".">>, !.waitingForNewValue = FALSE]
  ELSE [s EXCEPT !.display = Append(s.display, ".")]

handleDecimalPress(s) ==
  IF s.waitingForNewValue
  THEN [s EXCEPT !.display = <<"0", ".">>, !.waitingForNewValue = FALSE]
  ELSE IF NoChar(s.display, ".")
  THEN [s EXCEPT !.display = Append(s.display, ".")]
  ELSE s

\* Mutants of handleOperationPress: one that keeps the operator already
\* pending, one that does not resolve the pending operation.
handleOperationPressKeepsOperator(s, op) ==
  LET currentValue == parseFloat(s.display)
      result == calculate(s.previousValue, currentValue, s.operation)
  IN  IF s.previousValue = Null
      THEN [s EXCEPT !.previousValue = currentValue,
                     !.waitingForNewValue = TRUE, !.operation = op]
      ELSE IF s.operation # NoOperation
      THEN [s EXCEPT !.display = String(result), !.previousValue = result,
                     !.waitingForNewValue = TRUE]
      ELSE [s EXCEPT !.waitingForNewValue = TRUE, !.operation = op]

handleOperationPressNoChain(s, op) ==
  LET held == IF s.previousValue = Null
              THEN [s EXCEPT !.previousValue = parseFloat(s.display)]
              ELSE s
  IN  [held EXCEPT !.waitingForNewValue = TRUE, !.operation = op]

handleOperationPress(s, op) ==
  LET currentValue == parseFloat(s.display)
      result == calculate(s.previousValue, currentValue, s.operation)
      resolved ==
        IF s.previousValue = Null
        THEN [s EXCEPT !.previousValue = currentValue]
        ELSE IF s.operation # NoOperation
        THEN [s EXCEPT !.display = String(result), !.previousValue = result]
        ELSE s
  IN  [resolved EXCEPT !.waitingForNewValue = TRUE, !.operation = op]

\* Mutants of handleEquals: one with the operands the other way round, one
\* that sets waitingForNewValue whatever the state.
handleEqualsSwapped(s) ==
  IF s.previousValue # Null /\ s.operation # NoOperation
  THEN
    LET currentValue == parseFloat(s.display)
        result == calculate(currentValue, s.previousValue, s.operation)
    IN  IF isNaN(result)
        THEN State(ErrorMarker, Null, NoOperation, TRUE)
        ELSE State(String(result), Null, NoOperation, TRUE)
  ELSE s

handleEqualsAlwaysWaits(s) ==
  IF s.previousValue # Null /\ s.operation # NoOperation
  THEN
    LET currentValue == parseFloat(s.display)
        result == calculate(s.previousValue, currentValue, s.operation)
    IN  IF isNaN(result)
        THEN State(ErrorMarker, Null, NoOperation, TRUE)
        ELSE State(String(result), Null, NoOperation, TRUE)
  ELSE [s EXCEPT !.waitingForNewValue = TRUE]

\* Two more: one that leaves the operation pending after a result, one that
\* leaves waitingForNewValue unset after a result.
handleEqualsKeepsOperation(s) ==
  IF s.previousValue # Null /\ s.operation # NoOperation
  THEN
    LET currentValue == parseFloat(s.display)
        result == calculate(s.previousValue, currentValue, s.operation)
    IN  IF isNaN(result)
        THEN State(ErrorMarker, Null, NoOperation, TRUE)
        ELSE State(String(result), Null, s.operation, TRUE)
  ELSE s

handleEqualsKeepsTyping(s) ==
  IF s.previousValue # Null /\ s.operation # NoOperation
  THEN
    LET currentValue == parseFloat(s.display)
        result == calculate(s.previousValue, currentValue, s.operation)
    IN  IF isNaN(result)
        THEN State(ErrorMarker, Null, NoOperation, TRUE)
        ELSE State(String(result), Null, NoOperation, FALSE)
  ELSE s

handleEquals(s) ==
  IF s.previousValue # Null /\ s.operation # NoOperation
  THEN
    LET currentValue == parseFloat(s.display)
        result == calculate(s.previousValue, currentValue, s.operation)
    IN  IF isNaN(result)
        THEN State(ErrorMarker, Null, NoOperation, TRUE)
        ELSE State(String(result), Null, NoOperation, TRUE)
  ELSE s

\* Mutant of handleClear: waitingForNewValue is not reset.
handleClearKeepsWaiting(s) == State(<<"0">>, Null, NoOperation, s.waitingForNewValue)

handleClear(s) == State(<<"0">>, Null, NoOperation, FALSE)

\* Mutant of handleToggleSign: the display "0" is given a sign too.
handleToggleSignTogglesZero(s) ==
  [s EXCEPT !.display = IF StartsWith(s.display, <<"-">>)
                        THEN Slice1(s.display)
                        ELSE <<"-">> \o s.display]

handleToggleSign(s) ==
  IF s.display # <<"0">>
  THEN [s EXCEPT !.display = IF StartsWith(s.display, <<"-">>)
                             THEN Slice1(s.display)
                             ELSE <<"-">> \o s.display]
  ELSE s

\* The literal 100 of handlePercentage.
Hundred == [kind |-> "fin", neg |-> FALSE, m |-> 1, e |-> 2]

\* Mutant of handlePercentage: the next digit starts a new number.
handlePercentageWaits(s) ==
  LET value == Arith(parseFloat(s.display), Hundred, "/")
  IN  [s EXCEPT !.display = String(value), !.waitingForNewValue = TRUE]

handlePercentage(s) ==
  LET value == Arith(parseFloat(s.display), Hundred, "/")
  IN  [s EXCEPT !.display = String(value)]

-----------------------------------------------------------------------------
\* formatDisplay, which turns the display into the text on the screen

\* A literal is followed up to MaxDigits significant digits, whatever its
\* exponent: formatDisplay is applied to numbers far larger than those the
\* arithmetic above is followed for.
MaxDigits == 9

\* The number (-1)^neg * m * 10^e in normal form, with no bound on e.
RECURSIVE Decimal(_, _, _)
Decimal(neg, m, e) ==
  IF m = 0 THEN [kind |-> "fin", neg |-> FALSE, m |-> 0, e |-> 0]
  ELSE IF m % 10 = 0 THEN Decimal(neg, m \div 10, e + 1)
  ELSE [kind |-> "fin", neg |-> neg, m |-> m, e |-> e]

\* parseFloat as formatDisplay uses it: the same longest prefix that is a
\* decimal literal, its value kept whatever the exponent.
parseFloatLiteral(s) ==
  LET signed == Len(s) >= 1 /\ s[1] \in {"-", "+"}
      neg == signed /\ s[1] = "-"
      i0 == IF signed THEN 2 ELSE 1
      i1 == SkipDigits(s, i0)
      hasDot == i1 <= Len(s) /\ s[i1] = "."
      i2 == IF hasDot THEN SkipDigits(s, i1 + 1) ELSE i1
      intD == SubSeq(s, i0, i1 - 1)
      fracD == IF hasDot THEN SubSeq(s, i1 + 1, i2 - 1) ELSE <<>>
      hasE == i2 <= Len(s) /\ s[i2] \in {"e", "E"}
      eSigned == hasE /\ i2 + 1 <= Len(s) /\ s[i2 + 1] \in {"-", "+"}
      j1 == IF eSigned THEN i2 + 2 ELSE i2 + 1
      j2 == SkipDigits(s, j1)
      hasExp == hasE /\ j2 > j1
      expD == IF hasExp THEN SubSeq(s, j1, j2 - 1) ELSE <<>>
      expAbs == DigitsToNat(expD)
      expVal == IF eSigned /\ s[i2 + 1] = "-" THEN -expAbs ELSE expAbs
      lead == StripLeadingZeros(intD \o fracD)
      sig == StripTrailingZeros(lead)
  IN  IF StartsWith(SubSeq(s, i0, Len(s)), <<"I", "n", "f", "i", "n", "i", "t", "y">>)
      THEN Infinity
      ELSE IF Len(intD) + Len(fracD) = 0 THEN NaN
      ELSE IF Len(expD) > 3 \/ Len(sig) > MaxDigits THEN Out
      ELSE Decimal(neg, DigitsToNat(sig),
                   expVal - Len(fracD) + (Len(lead) - Len(sig)))

\* Math.abs(num) >= 1e15: a number of k digits times 10^e is at least 10^15
\* exactly when k + e exceeds 15.
ExpThreshold == 15

AtLeast1e15(num) ==
  \/ num.kind = "inf"
  \/ num.kind = "fin" /\ num.m # 0 /\ NumDigits(num.m) + num.e > ExpThreshold

\* The argument of num.toExponential(6).
FractionDigits == 6

\* Number.prototype.toExponential: one digit, the point, f digits, "e" and
\* the signed exponent. The f + 1 digits are those of the integer n nearest to
\* x / 10^(ex - f), the larger one when two are as near.
toExponential(x, f) ==
  LET k == NumDigits(x.m)
      cut == k - (f + 1)
      near == IF cut <= 0 THEN x.m * Pow10(-cut)
              ELSE (x.m \div Pow10(cut))
                     + (IF 2 * (x.m % Pow10(cut)) >= Pow10(cut) THEN 1 ELSE 0)
      over == near >= Pow10(f + 1)
      n == IF over THEN near \div 10 ELSE near
      ex == IF x.m = 0 THEN 0 ELSE k + x.e - 1 + (IF over THEN 1 ELSE 0)
      ds == NatToDigits(n) \o Zeros(f + 1 - NumDigits(n))
  IN  (IF x.neg THEN <<"-">> ELSE <<>>)
        \o <<ds[1]>> \o (IF f > 0 THEN <<".">> ELSE <<>>) \o SubSeq(ds, 2, f + 1)
        \o <<"e">> \o (IF ex < 0 THEN <<"-">> ELSE <<"+">>)
        \o NatToDigits(IF ex < 0 THEN -ex ELSE ex)

\* Mutant of formatDisplay: large numbers are not put in exponent notation.
formatDisplayPlain(value) ==
  LET num == parseFloatLiteral(value)
  IN  IF value = ErrorMarker THEN value
      ELSE IF isNaN(num) THEN <<"0">>
      ELSE String(num)

formatDisplay(value) ==
  LET num == parseFloatLiteral(value)
  IN  IF value = ErrorMarker THEN value
      ELSE IF isNaN(num) THEN <<"0">>
      ELSE IF AtLeast1e15(num)
        THEN IF num.kind = "inf"
             THEN (IF Head(value) = "-" THEN <<"-">> ELSE <<>>)
                    \o <<"I", "n", "f", "i", "n", "i", "t", "y">>
             ELSE toExponential(num, FractionDigits)
      ELSE String(num)

\* The steps within the bounds: the numbers a handler computes are numbers of
\* the model, and a display is extended only while shorter than MaxLen.
Computes(s) == calculate(s.previousValue, parseFloat(s.display), s.operation)

NumberInBounds(s) ==
  s.waitingForNewValue \/ s.display = <<"0">> \/ Len(s.display) < MaxLen

DecimalInBounds(s) ==
  s.waitingForNewValue \/ ~NoChar(s.display, ".") \/ Len(s.display) < MaxLen

OperationInBounds(s) ==
  /\ ~Unmodelled(parseFloat(s.display))
  /\ s.previousValue # Null /\ s.operation # NoOperation => ~Unmodelled(Computes(s))

EqualsInBounds(s) ==
  s.previousValue # Null /\ s.operation # NoOperation => ~Unmodelled(Computes(s))

PercentageInBounds(s) ==
  ~Unmodelled(Arith(parseFloat(s.display), Hundred, "/"))

-----------------------------------------------------------------------------
\* What the user keyed in, recorded beside the state.

Event(type, arg) == [type |-> type, arg |-> arg]

Current == State(display, previousValue, operation, waitingForNewValue)

\* apply(a, b, op) of the specification, section 4.1.
Apply(a, b, op) ==
  CASE op = OpAdd -> Arith(a, b, "+")
    [] op = OpSub -> Arith(a, b, "-")
    [] op = OpMul -> Arith(a, b, "*")
    [] op = OpDiv -> IF IsZero(b) THEN NaN ELSE Arith(a, b, "/")

\* The non-negative integer that the digits t write.
TypedValue(t) == FromDigits(FALSE, t, 0)

\* typed: the digits of the current run of Digit presses, and whether the run
\* began in the initial state or in a state awaiting an operand.
NoneTyped == [digits |-> <<>>, fresh |-> FALSE]

TypedAfter(type, arg) ==
  IF type # "Digit" THEN NoneTyped
  ELSE IF lastEvent.type = "Digit" THEN [typed EXCEPT !.digits = Append(@, arg)]
  ELSE [digits |-> <<arg>>,
        fresh |-> waitingForNewValue \/ Current = InitialState]

\* lastOperator: the operator of the latest Operator press since the latest
\* Equals or Clear (or since mount), "null" when there was none.
LastOperatorAfter(type, arg) ==
  CASE type = "Operator" -> arg
    [] type \in {"Equals", "Clear"} -> NoOperation
    [] OTHER -> lastOperator

\* script: how far the presses since mount or Clear spell
\*   digits Operator digits [Operator digits] Equals
\* with ops the operators pressed, op the last of them, and acc the value of
\* the operands resolved so far, left to right.  Any other press, or a division
\* by zero, ends the script ("off").
Script(phase, ops, acc, op) == [phase |-> phase, ops |-> ops, acc |-> acc, op |-> op]

ScriptStart == Script("start", 0, Zero, NoOperation)

ScriptOff == Script("off", 0, Zero, NoOperation)

ScriptAfter(type, arg) ==
  LET v == TypedValue(typed.digits)
      acc == IF script.ops = 0 THEN v ELSE Apply(script.acc, v, script.op)
  IN  CASE type = "Clear" -> ScriptStart
        [] type = "Digit" ->
             IF script.phase \in {"start", "operand", "operator"}
             THEN [script EXCEPT !.phase = "operand"]
             ELSE ScriptOff
        [] type = "Operator" ->
             IF script.phase = "operand" /\ script.ops < 2 /\ acc.kind = "fin"
             THEN Script("operator", script.ops + 1, acc, arg)
             ELSE ScriptOff
        [] type = "Equals" ->
             IF script.phase = "operand" /\ script.ops >= 1 /\ acc.kind = "fin"
             THEN Script("equals", script.ops, acc, NoOperation)
             ELSE ScriptOff
        [] OTHER -> ScriptOff

\* carry: how far the presses since an Equals press that produced a number r
\* spell  Operator digits Equals  ("operator", "operand", "carried") or a
\* single Digit ("digit"), with acc the number r, or in "carried" the value of
\* r, the operator and the digits.  A carried result is a result in its turn.
\* Any other press, or a result that is no number, ends it ("off").
Carry(phase, acc, op) == [phase |-> phase, acc |-> acc, op |-> op]

CarryOff == Carry("off", Zero, NoOperation)

CarryAfter(type, arg) ==
  LET r == Apply(previousValue, parseFloat(display), operation)
      v == Apply(carry.acc, TypedValue(typed.digits), carry.op)
      held == carry.phase \in {"result", "carried"}
  IN  CASE type = "Equals" ->
             IF carry.phase = "operand"
             THEN IF v.kind = "fin" THEN Carry("carried", v, NoOperation)
                  ELSE CarryOff
             ELSE IF previousValue # Null /\ operation # NoOperation
             THEN IF r.kind = "fin" THEN Carry("result", r, NoOperation)
                  ELSE CarryOff
             ELSE CarryOff
        [] type = "Operator" ->
             IF held THEN Carry("operator", carry.acc, arg) ELSE CarryOff
        [] type = "Digit" ->
             IF held THEN Carry("digit", carry.acc, NoOperation)
             ELSE IF carry.phase \in {"operator", "operand"}
             THEN [carry EXCEPT !.phase = "operand"]
             ELSE CarryOff
        [] OTHER -> CarryOff

-----------------------------------------------------------------------------
\* The state machine: one action a button.  Beside the state a run records
\* either the step last taken or the keys pressed; the choice, made at mount,
\* changes nothing the component does.

\* rendered before formatDisplay has been applied.
NotRendered == <<>>

Becomes(s, type, arg) ==
  /\ display' = s.display
  /\ previousValue' = s.previousValue
  /\ operation' = s.operation
  /\ waitingForNewValue' = s.waitingForNewValue
  /\ lastEvent' = Event(type, arg)
  /\ recording' = recording
  /\ before' = IF recording = "step" THEN Current ELSE before
  /\ repeated' = IF recording = "step" THEN lastEvent.type = type ELSE repeated
  /\ typed' = IF recording = "keys" THEN TypedAfter(type, arg) ELSE typed
  /\ script' = IF recording = "keys" THEN ScriptAfter(type, arg) ELSE script
  /\ lastOperator' = LastOperatorAfter(type, arg)
  /\ rendered' = rendered
  /\ carry' = IF recording = "keys" THEN CarryAfter(type, arg) ELSE carry

Init ==
  /\ display = <<"0">>
  /\ previousValue = Null
  /\ operation = NoOperation
  /\ waitingForNewValue = FALSE
  /\ lastEvent = Event("Mount", "")
  /\ recording \in {"step", "keys"}
  /\ before = InitialState
  /\ repeated = FALSE
  /\ typed = NoneTyped
  /\ script = ScriptStart
  /\ lastOperator = NoOperation
  /\ rendered = NotRendered
  /\ carry = CarryOff

NumberPress ==
  \E d \in Digits :
    /\ NumberInBounds(Current)
    /\ recording = "keys" /\ lastEvent.type = "Digit" => Len(typed.digits) <= MaxLen
    /\ Becomes(handleNumberPress(Current, DigitChar(d)), "Digit", DigitChar(d))

DecimalPress ==
  /\ DecimalInBounds(Current)
  /\ Becomes(handleDecimalPress(Current), "Decimal", "")

OperationPress ==
  \E op \in Operations :
    /\ OperationInBounds(Current)
    /\ Becomes(handleOperationPress(Current, op), "Operator", op)

EqualsPress ==
  /\ EqualsInBounds(Current)
  /\ Becomes(handleEquals(Current), "Equals", "")

ClearPress == Becomes(handleClear(Current), "Clear", "")

ToggleSignPress == Becomes(handleToggleSign(Current), "ToggleSign", "")

PercentagePress ==
  /\ PercentageInBounds(Current)
  /\ Becomes(handlePercentage(Current), "Percent", "")

Next ==
  \/ NumberPress
  \/ DecimalPress
  \/ OperationPress
  \/ EqualsPress
  \/ ClearPress
  \/ ToggleSignPress
  \/ PercentagePress

Spec == Init /\ [][Next]_vars

-----------------------------------------------------------------------------
\* formatDisplay on its own: the component holds a display and renders it

\* The zeros typed after the first digits of a long number.
MaxZeros == 15

\* States whose display is typed digit by digit (and signed by +/-), and those
\* left by a division by zero: "U+932F U+8AA4", with +/- or % pressed on it.
FormatDisplays ==
  LET typedInt == {NatToDigits(m) \o Zeros(z) :
                     m \in 1..MaxMantissa, z \in 0..MaxZeros}
      typedFrac == {String(Decimal(FALSE, m, -f)) :
                      m \in 1..MaxMantissa, f \in 1..MaxFrac}
      typedPoint == {NatToDigits(m) \o <<".">> : m \in 0..MaxMantissa}
      unsigned == typedInt \cup typedFrac \cup typedPoint
  IN  {<<"0">>} \cup unsigned \cup {<<"-">> \o d : d \in unsigned}

FormatStates ==
  {State(d, Null, NoOperation, FALSE) : d \in FormatDisplays}
    \cup {State(d, Null, NoOperation, TRUE) :
            d \in {ErrorMarker, <<"-">> \o ErrorMarker, <<"N", "a", "N">>}}

InitFormat ==
  /\ \E s \in FormatStates :
       /\ display = s.display
       /\ previousValue = s.previousValue
       /\ operation = s.operation
       /\ waitingForNewValue = s.waitingForNewValue
  /\ lastEvent = Event("Mount", "")
  /\ recording = "render"
  /\ before = InitialState
  /\ repeated = FALSE
  /\ typed = NoneTyped
  /\ script = ScriptOff
  /\ lastOperator = NoOperation
  /\ rendered = NotRendered
  /\ carry = CarryOff

Render ==
  /\ rendered = NotRendered
  /\ ~Unmodelled(parseFloatLiteral(display)) \/ parseFloatLiteral(display) = Infinity
  /\ rendered' = formatDisplay(display)
  /\ UNCHANGED <<display, previousValue, operation, waitingForNewValue,
                 lastEvent, recording, before, repeated, typed, script,
                 lastOperator, carry>>

NextFormat == Render

SpecFormat == InitFormat /\ [][NextFormat]_vars

-----------------------------------------------------------------------------
\* Properties

Points(s) == Cardinality({i \in 1..Len(s) : s[i] = "."})

\* The digits t as the display shows them: leading zeros replaced.
Typed(t) == IF StripLeadingZeros(t) = <<>> THEN <<"0">> ELSE StripLeadingZeros(t)

Pending == previousValue # Null /\ operation # NoOperation

\* x is a finite number, within the bounds or not.
IsFinite(x) == x.kind \in {"fin", "out"}

\* C1: from the initial state, digits(a) Operator(op) digits(b) Equals, with no
\* division by zero, ends with display the text of apply(a, b, op),
\* previousValue and operation absent and waitingForNewValue true.
C1_TwoOperandResult ==
  script.phase = "equals" /\ script.ops = 1 =>
    /\ display = String(script.acc)
    /\ previousValue = Null
    /\ operation = NoOperation
    /\ waitingForNewValue

\* 5 / 2 = has been keyed in.
C1_Witness ==
  /\ script.phase = "equals"
  /\ script.ops = 1
  /\ display = <<"2", ".", "5">>

\* C2: where the pending operation is divide and the display parses to zero,
\* Equals and Operator alike leave display the error marker, previousValue and
\* operation absent and waitingForNewValue true.
C2_DivisionByZeroYieldsMarker ==
  [][(/\ Pending
      /\ operation = OpDiv
      /\ IsZero(parseFloat(display))
      /\ lastEvent'.type \in {"Equals", "Operator"})
     => (/\ display' = ErrorMarker
         /\ previousValue' = Null
         /\ operation' = NoOperation
         /\ waitingForNewValue')]_vars

\* C3: in every reachable state display parses to a finite number or is the
\* error marker.
C3_DisplayFiniteOrMarker ==
  IsFinite(parseFloat(display)) \/ display = ErrorMarker

\* C4: Clear produces the initial state, whatever the state before.
C4_ClearRestoresInitial == lastEvent.type = "Clear" => Current = InitialState

\* Clear pressed in a state that differed from the initial one in every field.
C4_Witness ==
  /\ recording = "step"
  /\ lastEvent.type = "Clear"
  /\ before.display # <<"0">>
  /\ before.previousValue # Null
  /\ before.operation # NoOperation
  /\ before.waitingForNewValue

\* C5, as claimed: once display is the error marker it stays the error marker
\* after every button but Clear.
C5_OnlyClearLeavesError ==
  [][display = ErrorMarker /\ lastEvent'.type # "Clear" => display' = ErrorMarker]_vars

\* C5, amended: with display the error marker, Equals leaves it the marker, and
\* so does Operator while previousValue is absent; Digit replaces it by the
\* digit and Decimal by "0.".
C5_ErrorLeftByDigitOrDecimal ==
  [][display = ErrorMarker =>
       /\ lastEvent'.type = "Equals" => display' = ErrorMarker
       /\ lastEvent'.type = "Operator" /\ previousValue = Null => display' = ErrorMarker
       /\ lastEvent'.type = "Digit" => display' = <<lastEvent'.arg>>
       /\ lastEvent'.type = "Decimal" => display' = <<"0", ".">>]_vars

\* A digit pressed on the error marker has replaced it.
C5_Witness ==
  /\ recording = "step"
  /\ before.display = ErrorMarker
  /\ lastEvent.type = "Digit"
  /\ display = <<lastEvent.arg>>

\* C6: from the initial state, digits(a) Operator(op1) digits(b) Operator(op2)
\* shows the text of apply(a, b, op1), and digits(c) Equals after it the text
\* of apply(apply(a, b, op1), c, op2).
C6_ChainedLeftToRight ==
  script.ops = 2 /\ script.phase \in {"operator", "equals"} =>
    display = String(script.acc)

\* Three operands have been resolved to 14, as in 2 + 5 * 2 =.
C6_Witness ==
  /\ script.phase = "equals"
  /\ script.ops = 2
  /\ display = <<"1", "4">>

\* C7: digits pressed from the initial state or a state awaiting an operand
\* show as typed, leading zeros replaced.
C7_DigitsConcatenate ==
  typed.fresh /\ typed.digits # <<>> => display = Typed(typed.digits)

\* 0, 2, 5 has been typed and shows as 25.
C7_Witness ==
  /\ typed.fresh
  /\ typed.digits = <<"0", "2", "5">>
  /\ display = <<"2", "5">>

\* C8: display holds at most one decimal point.
C8_AtMostOnePoint == Points(display) <= 1

\* Decimal pressed on a display that held a point and was not to be replaced.
C8_Witness ==
  /\ recording = "step"
  /\ lastEvent.type = "Decimal"
  /\ ~before.waitingForNewValue
  /\ Points(before.display) = 1
  /\ Points(display) = 1

\* C9: a Decimal press right after a Decimal press changes no field.
C9_DecimalIdempotent ==
  [][lastEvent.type = "Decimal" /\ lastEvent'.type = "Decimal" => Current' = Current]_vars

\* Decimal pressed twice in a row, the first on a display awaiting an operand.
C9_Witness ==
  /\ recording = "step"
  /\ lastEvent.type = "Decimal"
  /\ repeated
  /\ before = Current
  /\ display = <<"0", ".">>
  /\ previousValue # Null

\* C10: Equals with previousValue or operation absent changes no field.
C10_EqualsNoOp ==
  [][lastEvent'.type = "Equals" /\ ~Pending => Current' = Current]_vars

\* Equals pressed on a typed number with nothing pending.
C10_Witness ==
  /\ recording = "step"
  /\ lastEvent.type = "Equals"
  /\ before.previousValue = Null
  /\ before.display = <<"2", "5">>
  /\ ~before.waitingForNewValue

\* C11: operation is present exactly when an Operator press has occurred since
\* the latest Equals or Clear (or since mount), and is then the operator of
\* the latest such press.
C11_PendingIsLastOperator == operation = lastOperator

\* A second operator, other than the first, pressed with the first pending.
C11_Witness ==
  /\ recording = "step"
  /\ lastEvent.type = "Operator"
  /\ before.operation # NoOperation
  /\ before.operation # lastEvent.arg
  /\ operation = lastEvent.arg

\* C12: a ToggleSign press leaves the display "0" as it is and otherwise
\* strips a leading minus or adds the missing one; it leaves previousValue,
\* operation and waitingForNewValue unchanged; the second of two ToggleSign
\* presses in a row restores the display the first one found.
C12_ToggleSignInvolution ==
  [][lastEvent'.type = "ToggleSign" =>
       /\ display' = IF display = <<"0">> THEN display
                     ELSE IF Head(display) = "-" THEN Tail(display)
                     ELSE <<"-">> \o display
       /\ previousValue' = previousValue
       /\ operation' = operation
       /\ waitingForNewValue' = waitingForNewValue
       /\ (recording = "step" /\ lastEvent.type = "ToggleSign"
             => display' = before.display)]_vars

\* Two ToggleSign presses in a row on a result with an operation pending:
\* the first had given the display its minus, the second took it away.
C12_Witness ==
  /\ recording = "step"
  /\ lastEvent.type = "ToggleSign"
  /\ repeated
  /\ before.display = <<"-">> \o display
  /\ display # <<"0">>
  /\ Pending

\* The hundredth of a number, as a decimal: the exponent goes down by two.
Hundredth(x) == Fin(x.neg, x.m, x.e - 2)

\* C13: a Percent press on a display that parses to a number replaces the
\* display by the canonical text of that number divided by 100 and leaves
\* previousValue, operation and waitingForNewValue unchanged.
C13_PercentDividesByHundred ==
  [][lastEvent'.type = "Percent" /\ parseFloat(display).kind = "fin" =>
       /\ display' = String(Hundredth(parseFloat(display)))
       /\ previousValue' = previousValue
       /\ operation' = operation
       /\ waitingForNewValue' = waitingForNewValue]_vars

\* 5, 0, % shows "0.5", the digits still being typed.
C13_Witness ==
  /\ recording = "step"
  /\ lastEvent.type = "Percent"
  /\ before.display = <<"5", "0">>
  /\ display = <<"0", ".", "5">>
  /\ ~waitingForNewValue

\* C14: an Operator press made while previousValue p and operation q are
\* present resolves them with the displayed value, on every press: display and
\* previousValue become apply(p, displayed value, q) and the operator pressed
\* becomes the pending one. So 5, +, + shows "10" and a third + shows "20".
C14_OperatorReResolves ==
  [][lastEvent'.type = "Operator" /\ Pending =>
       LET r == Apply(previousValue, parseFloat(display), operation)
       IN  /\ previousValue' = r
           /\ display' = String(r)
           /\ operation' = lastEvent'.arg]_vars

\* The third + of 5, +, +, +: the display goes from "10" to "20".
C14_Witness ==
  /\ recording = "step"
  /\ lastEvent = Event("Operator", OpAdd)
  /\ repeated
  /\ before = State(<<"1", "0">>, Fin(FALSE, 1, 1), OpAdd, TRUE)
  /\ Current = State(<<"2", "0">>, Fin(FALSE, 2, 1), OpAdd, TRUE)

\* C15: a step that takes the display from some other text to the error
\* marker is an Equals press made while operation is divide and the display
\* parses to zero.
C15_OnlyDivisionByZeroErrs ==
  [][display # ErrorMarker /\ display' = ErrorMarker =>
       /\ lastEvent'.type = "Equals"
       /\ operation = OpDiv
       /\ IsZero(parseFloat(display))]_vars

\* A text in exponent notation with six digits after the point.
IsScientific(t) ==
  LET u == IF Head(t) = "-" THEN Tail(t) ELSE t
      e == FractionDigits + 3
  IN  /\ Len(u) > e + 1
      /\ IsDigit(u[1]) /\ u[1] # "0" /\ u[2] = "."
      /\ \A i \in 3..(e - 1) : IsDigit(u[i])
      /\ u[e] = "e" /\ u[e + 1] = "+"
      /\ \A i \in (e + 2)..Len(u) : IsDigit(u[i])

C17_PreviousValueIffOperation ==
  previousValue # Null <=> operation # NoOperation

\* An Equals press found both present and left neither.
C17_Witness ==
  /\ recording = "step"
  /\ lastEvent.type = "Equals"
  /\ before.previousValue # Null /\ before.operation # NoOperation
  /\ previousValue = Null /\ operation = NoOperation
  /\ display # ErrorMarker

\* C18: after an Equals press that produced a number r, Operator(op),
\* digits(b), Equals shows the text of apply(r, b, op) (b not zero when op is
\* divide), while a Digit d pressed straight after that Equals shows exactly d
\* and leaves no previousValue and no operation.
C18_ResultCarriesOver ==
  /\ carry.phase = "carried" => display = String(carry.acc)
  /\ carry.phase = "digit" =>
       /\ display = <<lastEvent.arg>>
       /\ previousValue = Null
       /\ operation = NoOperation

\* 2, +, 2, = shows "4"; then U+00D7, 5, = shows "20".
C18_Witness ==
  /\ carry = Carry("carried", Fin(FALSE, 2, 1), NoOperation)
  /\ script.phase = "off"
  /\ lastEvent.type = "Equals"
  /\ display = <<"2", "0">>
====
